---- MODULE Spec2Model ----
(***************************************************************************)
(* Model of pgext's OpenTelemetryHook (otel.go): BeforeQuery, AfterQuery   *)
(* and the caller resolver funcFileLine.                                   *)
(*                                                                         *)
(* Go strings are sequences of one-character strings, so that byte         *)
(* indexing, slicing, trimming and substring search are computed the way   *)
(* the strings package computes them.  A nil error is the string "nil".    *)
(***************************************************************************)
EXTENDS Integers, Sequences, FiniteSets, TLC

VARIABLES
  h,        \* the hook configuration: [Caller, AllowMetric]
  evt,      \* the pg.QueryEvent of the one query in flight
  stack,    \* the goroutine's call stack while funcFileLine runs (innermost first)
  pc,       \* position of the SQL engine: "start", "before", "executed", "done"
  ctx,      \* which span the context handed to the hook carries: "ambient" / "child"
  spans,    \* ambient and child span: [created, recording, log]
  latency,  \* the values recorded on latencyValueRecorder, one entry per Record call
  calls,    \* how often each statement accessor of the event was called
  labels,   \* AfterQuery's local metricLabels as it stands when the body returns
  ret       \* the results returned: [before, after]

vars == <<h, evt, stack, pc, ctx, spans, latency, calls, labels, ret>>

\* ------------------------------------------------------------------ bounds

\* Rows affected / returned range over 0..MaxRows.
MaxRows == 1
\* Generated statements have at most MaxStmtLen characters.
MaxStmtLen == 4
\* Library frames stacked above AfterQuery: 0..MaxLibFrames.
MaxLibFrames == 17
\* Frames above the library frames: at most MaxOuterFrames.
MaxOuterFrames == 2

\* --------------------------------------------------------- program constants

skip == 3
depth == 16
nameLimit == 20
queryLimit == 5000

Nil == "nil"
ErrNoRows == "pg.ErrNoRows"
ErrMultiRows == "pg.ErrMultiRows"
ErrOther == "errors.New"
ErrFormatU == "unformatted: format error"
ErrFormatF == "formatted: format error"

InsertOp == <<"I", "N", "S", "E", "R", "T">>
SelectOp == <<"S", "E", "L", "E", "C", "T">>
UpdateOp == <<"U", "P", "D", "A", "T", "E">>
DeleteOp == <<"D", "E", "L", "E", "T", "E">>
NoOp == <<>>

\* "github.com/go-pg/pg", abbreviated over the alphabet of the frame names below
pgPkg == <<"g", "/", "p">>

instanceKey == "sql.instance"
methodKey == "sql.method"
tableKey == "sql.table"
statusKey == "sql.status"

\* ---------------------------------------------------------- strings package

Min(a, b) == IF a < b THEN a ELSE b

\* s[:n] for 0 <= n <= len(s)
Prefix(s, n) == SubSeq(s, 1, n)

\* s[n:] for 0 <= n <= len(s)
Suffix(s, n) == SubSeq(s, n + 1, Len(s))

\* strings.IndexByte: 0-based index of the first c in s, or -1
IndexByte(s, c) ==
  IF \E i \in 1..Len(s) : s[i] = c
  THEN (CHOOSE i \in 1..Len(s) : s[i] = c /\ \A j \in 1..(i - 1) : s[j] # c) - 1
  ELSE -1

\* strings.LastIndexByte: 0-based index of the last c in s, or -1
LastIndexByte(s, c) ==
  IF \E i \in 1..Len(s) : s[i] = c
  THEN (CHOOSE i \in 1..Len(s) : s[i] = c /\ \A j \in (i + 1)..Len(s) : s[j] # c) - 1
  ELSE -1

\* strings.Contains
Contains(s, sub) ==
  \E i \in 0..(Len(s) - Len(sub)) : SubSeq(s, i + 1, i + Len(sub)) = sub

IsSpace(c) == c \in {" ", "\t", "\n", "\r"}

RECURSIVE TrimLeft(_)
TrimLeft(s) ==
  IF s # <<>> /\ IsSpace(Head(s)) THEN TrimLeft(Tail(s)) ELSE s

RECURSIVE TrimRight(_)
TrimRight(s) ==
  IF s # <<>> /\ IsSpace(s[Len(s)]) THEN TrimRight(Prefix(s, Len(s) - 1)) ELSE s

\* strings.TrimSpace
TrimSpace(s) == TrimRight(TrimLeft(s))

\* ------------------------------------------------------ label.KeyValue, spans

LabelString(k, v) == [key |-> k, kind |-> "String", str |-> v, int |-> 0]
LabelInt(k, n) == [key |-> k, kind |-> "Int", str |-> <<>>, int |-> n]

statusOKLabel == LabelString(statusKey, <<"O", "K">>)
statusErrorLabel == LabelString(statusKey, <<"E", "r", "r", "o", "r">>)

\* one call on a span, as the span's log keeps it
SpanOp(op) == [op |-> op, name |-> <<>>, msg |-> <<>>, err |-> Nil, attrs |-> <<>>]
OpSetName(n) == [SpanOp("SetName") EXCEPT !.name = n]
OpSetStatus(m) == [SpanOp("SetStatus") EXCEPT !.err = "codes.Error", !.msg = m]
OpRecordError(e) == [SpanOp("RecordError") EXCEPT !.err = e]
OpSetAttributes(a) == [SpanOp("SetAttributes") EXCEPT !.attrs = a]
OpEnd == SpanOp("End")

IsRecording(span) == span.created /\ span.recording

\* ------------------------------------------------------------- funcFileLine

NoFrame == [fn |-> <<>>, file |-> <<>>, line |-> 0]

\* runtime.Callers(skip, pcs[:max]): stk[1] is the frame of Callers itself
\* (skip 0), stk[2] its caller, and so on outward; at most max frames are kept.
Callers(stk, sk, max) ==
  IF sk >= Len(stk) THEN <<>> ELSE SubSeq(stk, sk + 1, Min(Len(stk), sk + max))

\* the for loop over ff.Next(): cur is (fn, file, line) as last assigned
RECURSIVE WalkFrames(_, _, _, _)
WalkNeverStops(ff, i, cur, pkg) ==
  IF i > Len(ff) THEN cur ELSE WalkFrames(ff, i + 1, ff[i], pkg)
WalkFrames(ff, i, cur, pkg) ==
  IF i > Len(ff)
  THEN cur
  ELSE IF ~Contains(ff[i].fn, pkg)
       THEN ff[i]
       ELSE WalkFrames(ff, i + 1, ff[i], pkg)

\* fn = fn[ind+1:] when fn holds a '/'
LastSegment(fn) ==
  LET ind == LastIndexByte(fn, "/")
  IN  IF ind # -1 THEN Suffix(fn, ind + 1) ELSE fn

funcFileLine(stk, pkg) ==
  LET ff == Callers(stk, skip, depth)
      f == WalkFrames(ff, 1, NoFrame, pkg)
  IN  [f EXCEPT !.fn = LastSegment(f.fn)]

\* ------------------------------------------------------------- BeforeQuery

StartsSpanAlways(span) == TRUE
\* the guard of BeforeQuery: a span is started only under a recording span
StartsSpan(span) == IsRecording(span)

\* -------------------------------------------------------------- AfterQuery

FastPathNever(span, hook) == FALSE
FastPath(span, hook) == ~IsRecording(span) /\ ~hook.AllowMetric

EndOnlyOnSuccess(span, result) == IsRecording(span) /\ result = Nil
\* defer span.End(): scheduled before the body, so it runs whatever the body returns
EndDeferred(span, result) == IsRecording(span)

\* every span call of the body sits under if span.IsRecording()
UnguardedCall(span, op) == [span EXCEPT !.log = Append(@, op)]
GuardedCall(span, op) ==
  IF IsRecording(span) THEN [span EXCEPT !.log = Append(@, op)] ELSE span

\* evt.Query.(queryOperation): the zero QueryOp when the query has no Operation()
Operation(query) == IF query.hasOp THEN query.op ELSE NoOp

AlwaysFormatted(operation) == "formatted"
StatementAccessor(operation) ==
  IF operation = InsertOp THEN "unformatted" ELSE "formatted"

\* name := query, cut at the first space found at an index > 0, then at 20
CutName(query) ==
  LET idx == IndexByte(query, " ")
      name == IF idx > 0 THEN Prefix(query, idx) ELSE query
  IN  IF Len(name) > nameLimit THEN Prefix(name, nameLimit) ELSE name

NameFromStatement(operation, query) == TrimSpace(CutName(query))
\* the span name and the sql.method label
MethodName(operation, query) ==
  IF operation # NoOp THEN operation ELSE TrimSpace(CutName(query))

Truncate(query) ==
  IF Len(query) > queryLimit THEN Prefix(query, queryLimit) ELSE query

CallerAttrs(hook, stk) ==
  IF hook.Caller
  THEN LET f == funcFileLine(stk, pgPkg)
       IN  << LabelString("frame.func", f.fn),
              LabelString("frame.file", f.file),
              LabelInt("frame.line", f.line) >>
  ELSE <<>>

StatementAttrs(query) ==
  << LabelString("db.system", <<"p", "o", "s", "t", "g", "r", "e", "s">>),
     LabelString("db.statement", query) >>

ConnectionAttrs(db) ==
  IF db.isPgDB
  THEN << LabelString("db.connection_string", db.Addr),
          LabelString("db.user", db.User),
          LabelString("db.name", db.Database) >>
  ELSE <<>>

InstanceLabels(db) ==
  IF db.isPgDB /\ Len(db.Database) > 0
  THEN << LabelString(instanceKey, db.Database) >>
  ELSE <<>>

TableLabels(params) ==
  IF Len(params) > 0 /\ params[1].isTableModel /\ Len(params[1].ModelName) > 0
  THEN << LabelString(tableKey, params[1].ModelName) >>
  ELSE <<>>

RecordEveryError(err) == OpRecordError(err)
\* switch evt.Err { case pg.ErrNoRows, pg.ErrMultiRows: ...; default: ... }
ErrorCall(err) ==
  IF err \in {ErrNoRows, ErrMultiRows} THEN OpSetStatus(<<>>) ELSE OpRecordError(err)

RowsAttrs(e) ==
  IF e.Err = Nil /\ e.Result.present
  THEN LET numRow == IF e.Result.affected = 0 THEN e.Result.returned
                     ELSE e.Result.affected
       IN  << LabelInt("db.rows_affected", numRow) >>
  ELSE <<>>

StatusLabels(e) ==
  IF e.Err # Nil THEN << statusErrorLabel >>
  ELSE IF e.Result.present THEN << statusOKLabel >>
  ELSE <<>>

LabelsWhenScheduled(scheduled, final) == scheduled
\* the deferred closure reads the variable metricLabels when it runs
RecordedLabels(scheduled, final) == final

ReturnsEventError(extractErr, evtErr) ==
  IF extractErr # Nil THEN extractErr ELSE evtErr
\* return err after a failed accessor, return nil at the end
AfterQueryResult(extractErr, evtErr) == extractErr

\* The body of AfterQuery after the fast path, up to its return statement:
\* the span with the calls made on it, the local metricLabels, the accessor
\* that was called and the value returned.
AfterQueryBody(span, hook, e, stk) ==
  LET operation == Operation(e.Query)
      accessor == StatementAccessor(operation)
      b == IF accessor = "unformatted" THEN e.unformatted ELSE e.formatted
  IN  IF b.err # Nil
      THEN [span |-> span, labels |-> <<>>, accessor |-> accessor,
            result |-> AfterQueryResult(b.err, e.Err)]
      ELSE LET query == b.text
               name == MethodName(operation, query)
               span1 == GuardedCall(span, OpSetName(name))
               labels1 == << LabelString(methodKey, name) >>
               attrs == CallerAttrs(hook, stk) \o StatementAttrs(Truncate(query))
                          \o ConnectionAttrs(e.DB) \o RowsAttrs(e)
               labels2 == labels1 \o InstanceLabels(e.DB) \o TableLabels(e.Params)
                            \o StatusLabels(e)
               span2 == IF e.Err # Nil
                        THEN GuardedCall(span1, ErrorCall(e.Err))
                        ELSE span1
               span3 == GuardedCall(span2, OpSetAttributes(attrs))
           IN  [span |-> span3, labels |-> labels2, accessor |-> accessor,
                result |-> AfterQueryResult(Nil, e.Err)]

\* ------------------------------------------------------------------ inputs

RECURSIVE SeqsUpTo(_, _)
\* all sequences over S of length at most n
SeqsUpTo(S, n) ==
  IF n = 0 THEN {<<>>}
  ELSE LET shorter == SeqsUpTo(S, n - 1)
       IN  shorter \cup {Append(s, c) : s \in shorter, c \in S}

RECURSIVE Repeat(_, _)
Repeat(x, n) == IF n = 0 THEN <<>> ELSE <<x>> \o Repeat(x, n - 1)

\* "  SELECT * FROM t WHERE id=1"
ExampleStmt ==
  << " ", " ", "S", "E", "L", "E", "C", "T", " ", "*", " ", "F", "R", "O", "M",
     " ", "t", " ", "W", "H", "E", "R", "E", " ", "i", "d", "=", "1" >>
\* "SELECT * FROM t WHERE id=1"
PlainStmt == Suffix(ExampleStmt, 2)
\* a single word of 30 characters
LongWord == Repeat("w", 30)
\* a word of 25 characters followed by " x"
LongToken == Repeat("w", 25) \o <<" ", "x">>

StmtAlphabet == {" ", "\t", "a"}
Statements ==
  SeqsUpTo(StmtAlphabet, MaxStmtLen) \cup {ExampleStmt, PlainStmt, LongWord, LongToken}

Ok(text) == [err |-> Nil, text |-> text]
Failed(err) == [err |-> err, text |-> <<>>]

UnformattedText == <<"I", " ", "?">>
FormattedText == <<"I", " ", "7">>

Queries ==
  {[hasOp |-> FALSE, op |-> NoOp]}
    \cup {[hasOp |-> TRUE, op |-> o] : o \in {InsertOp, SelectOp, UpdateOp, DeleteOp}}

NotPgDB == [isPgDB |-> FALSE, Addr |-> <<>>, User |-> <<>>, Database |-> <<>>]
PgDB(database) ==
  [isPgDB |-> TRUE, Addr |-> <<"h", ":", "5">>, User |-> <<"u">>, Database |-> database]
DBs == {NotPgDB, PgDB(<<>>), PgDB(<<"d", "b">>)}

Plain == [isTableModel |-> FALSE, ModelName |-> <<>>]
TableModel(name) == [isTableModel |-> TRUE, ModelName |-> name]
ParamLists ==
  { <<>>, <<Plain>>, <<TableModel(<<>>)>>, <<TableModel(<<"M">>)>>,
    <<Plain, TableModel(<<"M">>)>> }

NoResult == [present |-> FALSE, affected |-> 0, returned |-> 0]
Results ==
  {NoResult}
    \cup {[present |-> TRUE, affected |-> a, returned |-> r] :
            a \in 0..MaxRows, r \in 0..MaxRows}

\* what the engine can hand to AfterQuery as (Err, Result)
Outcomes ==
  {<<Nil, r>> : r \in Results}
    \cup {<<e, r>> : e \in {ErrNoRows, ErrMultiRows, ErrOther},
                     r \in {NoResult, [present |-> TRUE, affected |-> 1, returned |-> 0]}}

\* frame names: inside the library, and outside it
LibNames == { <<"g", "/", "p", "/", "v", ".", "e">>, <<"g", "/", "p", ".", "q">> }
OuterNames ==
  { <<"m", ".", "r">>, <<"a", "/", "s", ".", "f">>, <<"x", "/", "g", "/", "p", "x", ".", "w">>,
    <<>> }
FileOf(fn) == IF fn = <<>> THEN <<>> ELSE <<Head(fn), ".", "g", "o">>

\* the frames of runtime.Callers, funcFileLine and AfterQuery, innermost first
InnerFrames == << <<"r", ".", "C">>, <<"j", "/", "x", ".", "f">>, <<"j", "/", "x", ".", "A">> >>

StackOf(names) ==
  [i \in 1..Len(names) |-> [fn |-> names[i], file |-> FileOf(names[i]), line |-> 10 * i]]

Stacks ==
  { StackOf(InnerFrames \o Repeat(<<"g", "/", "p", "/", "v", ".", "e">>, n) \o outer) :
      n \in 0..MaxLibFrames,
      outer \in SeqsUpTo(LibNames \cup OuterNames, MaxOuterFrames) }

MainStack == StackOf(InnerFrames \o Repeat(<<"g", "/", "p", ".", "q">>, 2) \o << <<"m", ".", "r">> >>)

NewSpan == [created |-> FALSE, recording |-> FALSE, log |-> <<>>]

NewEvent(q, u, f, db, params) ==
  [Query |-> q, unformatted |-> u, formatted |-> f, DB |-> db, Params |-> params,
   Err |-> Nil, Result |-> NoResult]

\* the state once the hook is installed and a query is about to run
Start(hook, e, stk, ambientRecording) ==
  /\ h = hook
  /\ evt = e
  /\ stack = stk
  /\ pc = "start"
  /\ ctx = "ambient"
  /\ spans = [ambient |-> [created |-> TRUE, recording |-> ambientRecording, log |-> <<>>],
              child |-> NewSpan]
  /\ latency = <<>>
  /\ calls = [unformatted |-> 0, formatted |-> 0]
  /\ labels = <<>>
  /\ ret = [before |-> "none", after |-> "none"]

Hooks == [Caller : BOOLEAN, AllowMetric : BOOLEAN]

Init ==
  \E hook \in Hooks, q \in Queries, db \in DBs, params \in ParamLists, rec \in BOOLEAN,
     u \in {Ok(UnformattedText), Failed(ErrFormatU)},
     f \in {Ok(FormattedText), Ok(<<" ", "a", " ", "b">>), Failed(ErrFormatF)} :
    Start(hook, NewEvent(q, u, f, db, params), MainStack, rec)

\* untagged queries over every statement, for the derivation of the name
InitName ==
  \E hook \in Hooks, f \in Statements, rec \in BOOLEAN :
    Start(hook, NewEvent([hasOp |-> FALSE, op |-> NoOp], Ok(UnformattedText), Ok(f),
                         NotPgDB, <<>>), MainStack, rec)

\* caller attribution over every stack
InitCaller ==
  \E stk \in Stacks, rec \in BOOLEAN :
    Start([Caller |-> TRUE, AllowMetric |-> FALSE],
          NewEvent([hasOp |-> TRUE, op |-> SelectOp], Ok(UnformattedText),
                   Ok(FormattedText), NotPgDB, <<>>), stk, rec)

\* ----------------------------------------------------------------- actions

BeforeQuery ==
  /\ pc = "start"
  /\ pc' = "before"
  /\ ret' = [ret EXCEPT !.before = Nil]
  /\ IF StartsSpan(spans[ctx])
     THEN \E recording \in BOOLEAN :
            /\ spans' = [spans EXCEPT !.child =
                           [created |-> TRUE, recording |-> recording, log |-> <<>>]]
            /\ ctx' = "child"
     ELSE UNCHANGED <<spans, ctx>>
  /\ UNCHANGED <<h, evt, stack, latency, calls, labels>>

\* the engine runs the query and completes the event
Execute ==
  /\ pc = "before"
  /\ pc' = "executed"
  /\ \E o \in Outcomes : evt' = [evt EXCEPT !.Err = o[1], !.Result = o[2]]
  /\ UNCHANGED <<h, stack, ctx, spans, latency, calls, labels, ret>>

AfterQuery ==
  /\ pc = "executed"
  /\ pc' = "done"
  /\ IF FastPath(spans[ctx], h)
     THEN /\ ret' = [ret EXCEPT !.after = Nil]
          /\ UNCHANGED <<spans, latency, calls, labels>>
     ELSE LET span == spans[ctx]
              body == AfterQueryBody(span, h, evt, stack)
              \* the deferred calls run last in, first out: Record, then End
              recorded == IF h.AllowMetric
                          THEN << [labels |-> RecordedLabels(<<>>, body.labels)] >>
                          ELSE <<>>
              ended == IF EndDeferred(span, body.result)
                       THEN [body.span EXCEPT !.log = Append(@, OpEnd)]
                       ELSE body.span
          IN  /\ ret' = [ret EXCEPT !.after = body.result]
              /\ spans' = [spans EXCEPT ![ctx] = ended]
              /\ latency' = latency \o recorded
              /\ calls' = [calls EXCEPT ![body.accessor] = @ + 1]
              /\ labels' = body.labels
  /\ UNCHANGED <<h, evt, stack, ctx>>

Next == BeforeQuery \/ Execute \/ AfterQuery

Spec == Init /\ [][Next]_vars
SpecName == InitName /\ [][Next]_vars
SpecCaller == InitCaller /\ [][Next]_vars

\* ------------------------------------------------- observations of a state

Done == pc = "done"
\* the span AfterQuery reads from its context
CtxSpan == spans[ctx]
\* the event's operation tag, empty when the query carries none
Tag == IF evt.Query.hasOp THEN evt.Query.op ELSE NoOp
PastFastPath == Done /\ (IsRecording(CtxSpan) \/ h.AllowMetric)
Succeeded == Done /\ ret.after = Nil

CallsOf(span, op) == {i \in 1..Len(span.log) : span.log[i].op = op}
\* the display name of a span: "" as started, then whatever SetName set last
SpanName(span) ==
  LET set == CallsOf(span, "SetName")
  IN  IF set = {} THEN <<>>
      ELSE span.log[CHOOSE i \in set : \A j \in set : j <= i].name
\* every attribute written on a span
AttrsOf(span) ==
  UNION { {span.log[i].attrs[k] : k \in 1..Len(span.log[i].attrs)} :
            i \in CallsOf(span, "SetAttributes") }
Untouched(span) == span.log = <<>>
KeysOf(ls) == [i \in 1..Len(ls) |-> ls[i].key]
LabelSet(ls) == {ls[i] : i \in 1..Len(ls)}

\* the label keys steps 5-11 append for an event whose statement was extracted
ExpectedKeys ==
  <<methodKey>>
    \o (IF evt.DB.isPgDB /\ evt.DB.Database # <<>> THEN <<instanceKey>> ELSE <<>>)
    \o (IF evt.Params # <<>> /\ evt.Params[1].isTableModel
           /\ evt.Params[1].ModelName # <<>>
        THEN <<tableKey>> ELSE <<>>)
    \o (IF evt.Err # Nil \/ evt.Result.present THEN <<statusKey>> ELSE <<>>)

\* ------------------------------------------------------------------ claims

\* C1: with AllowMetric = false and a span in the context that is not
\* recording, AfterQuery returns success and mutates nothing: no call on any
\* span (SetName, SetStatus, RecordError, SetAttributes, End) and no latency
\* record.
C1_FastPathNoMutation ==
  (Done /\ ~h.AllowMetric /\ ~IsRecording(CtxSpan)) =>
    /\ ret.after = Nil
    /\ Untouched(spans.ambient)
    /\ Untouched(spans.child)
    /\ latency = <<>>

C1_Witness ==
  /\ Done /\ ~h.AllowMetric /\ ~IsRecording(CtxSpan)
  /\ spans.child.created
  /\ evt.Err = ErrOther
  /\ evt.formatted.err # Nil /\ evt.unformatted.err # Nil

\* C2: under an ambient span that is not recording, BeforeQuery creates no
\* span and returns the context unchanged, and AfterQuery ends no span; a span
\* BeforeQuery created that is recording is ended exactly once, by AfterQuery
\* and not before, on every exit path of AfterQuery.
C2_SpanLifecycle ==
  /\ (pc # "start" /\ ~spans.ambient.recording) =>
       /\ ~spans.child.created
       /\ ctx = "ambient"
       /\ CallsOf(spans.ambient, "End") = {}
       /\ CallsOf(spans.child, "End") = {}
  /\ (spans.child.created /\ spans.child.recording) =>
       /\ ctx = "child"
       /\ Cardinality(CallsOf(spans.child, "End")) = IF Done THEN 1 ELSE 0
       /\ Done => spans.child.log[Len(spans.child.log)].op = "End"

C2_Witness ==
  /\ Done /\ spans.child.created /\ spans.child.recording
  /\ ret.after # Nil
  /\ spans.child.log = <<OpEnd>>

\* C3: with AllowMetric enabled every AfterQuery call records exactly one
\* latency value, whatever it returns, and the labels of that record are the
\* labels as accumulated when the function exits: method, instance, table and
\* status as the event calls for them after a successful extraction, none
\* after a failed one.
C3_LatencyOnEveryExit ==
  /\ ~Done => latency = <<>>
  /\ (Done /\ h.AllowMetric) =>
       /\ Len(latency) = 1
       /\ latency[1].labels = labels
       /\ ret.after # Nil => latency[1].labels = <<>>
       /\ ret.after = Nil => KeysOf(latency[1].labels) = ExpectedKeys

C3_Witness ==
  /\ Done /\ h.AllowMetric /\ ret.after = Nil
  /\ Len(latency) = 1
  /\ KeysOf(latency[1].labels) = <<methodKey, instanceKey, tableKey, statusKey>>

\* C4: AfterQuery returns a failure exactly when the statement accessor it
\* called failed, and then that accessor's error; an error carried in the
\* event is never what it returns; BeforeQuery returns no error.
C4_OnlyExtractionFails ==
  /\ ret.before \in {"none", Nil}
  /\ pc # "start" => ret.before = Nil
  /\ Done =>
       /\ ret.after # Nil <=>
            \/ calls.unformatted > 0 /\ evt.unformatted.err # Nil
            \/ calls.formatted > 0 /\ evt.formatted.err # Nil
       /\ ret.after \in {Nil, ErrFormatU, ErrFormatF}

C4_Witness ==
  /\ PastFastPath
  /\ evt.Err = ErrOther
  /\ calls.formatted = 1 /\ evt.formatted.err = Nil
  /\ ret.after = Nil

\* C5 as claimed: for a tagged event processed past the fast path the span
\* name (span recording) and the method label equal the tag.
C5_Original ==
  (PastFastPath /\ Tag # NoOp) =>
    /\ IsRecording(CtxSpan) => SpanName(CtxSpan) = Tag
    /\ labels # <<>> /\ labels[1] = LabelString(methodKey, Tag)

\* C5 as amended: for a tagged event processed past the fast path whose
\* statement extraction succeeds, the span name (span recording) and the
\* method label, in the local labels and in the latency record, equal the
\* tag's string form, whatever the statement text.
C5_TaggedName ==
  (PastFastPath /\ Tag # NoOp /\ Succeeded) =>
    /\ IsRecording(CtxSpan) => SpanName(CtxSpan) = Tag
    /\ labels # <<>> /\ labels[1] = LabelString(methodKey, Tag)
    /\ h.AllowMetric => latency[1].labels[1] = LabelString(methodKey, Tag)

C5_Witness ==
  /\ PastFastPath /\ Succeeded /\ IsRecording(CtxSpan) /\ h.AllowMetric
  /\ Tag = UpdateOp
  /\ evt.formatted.text = <<" ", "a", " ", "b">>
  /\ SpanName(CtxSpan) = UpdateOp

\* the name C6 describes: leading whitespace trimmed, cut at the first space,
\* at most 20 characters
ClaimedName(stmt) ==
  LET trimmed == TrimLeft(stmt)
      idx == IndexByte(trimmed, " ")
      token == IF idx >= 0 THEN Prefix(trimmed, idx) ELSE trimmed
  IN  TrimSpace(Prefix(token, Min(Len(token), nameLimit)))

\* C6 as claimed: for an untagged event the span name and the method label
\* are the statement's first space-delimited token, leading whitespace
\* trimmed, cut at the first space and at most 20 characters long; so
\* "  SELECT * FROM t WHERE id=1" gives "SELECT".
C6_Claim ==
  (PastFastPath /\ Tag = NoOp /\ Succeeded) =>
    /\ labels[1] = LabelString(methodKey, ClaimedName(evt.formatted.text))
    /\ IsRecording(CtxSpan) => SpanName(CtxSpan) = ClaimedName(evt.formatted.text)

\* C7 as claimed: the statement comes from the unformatted accessor exactly
\* when the tag is Insert, and from the formatted accessor otherwise.
C7_Original ==
  Done =>
    /\ calls.unformatted = 1 <=> Tag = InsertOp
    /\ calls.formatted = 1 <=> Tag # InsertOp

\* C7 as amended: an AfterQuery call that proceeds past the fast path calls
\* exactly one accessor, the unformatted one exactly when the tag is Insert;
\* the other accessor is never called; the db.statement attribute written on
\* a recording span is the text that accessor returned.
C7_AccessorByTag ==
  /\ Tag = InsertOp => calls.formatted = 0
  /\ Tag # InsertOp => calls.unformatted = 0
  /\ PastFastPath =>
       /\ calls.unformatted = (IF Tag = InsertOp THEN 1 ELSE 0)
       /\ calls.formatted = (IF Tag # InsertOp THEN 1 ELSE 0)
  /\ (PastFastPath /\ Succeeded /\ IsRecording(CtxSpan)) =>
       LabelString("db.statement",
                   IF Tag = InsertOp THEN evt.unformatted.text ELSE evt.formatted.text)
         \in AttrsOf(CtxSpan)

C7_Witness ==
  /\ PastFastPath /\ Succeeded /\ IsRecording(CtxSpan)
  /\ Tag = InsertOp
  /\ evt.formatted.err = Nil
  /\ calls = [unformatted |-> 1, formatted |-> 0]
  /\ LabelString("db.statement", UnformattedText) \in AttrsOf(CtxSpan)

\* what C8 says of a span and the labels once an event with an error is processed
ErrorClassified ==
  /\ evt.Err \in {ErrNoRows, ErrMultiRows} =>
       /\ \E i \in CallsOf(CtxSpan, "SetStatus") :
            CtxSpan.log[i].err = "codes.Error" /\ CtxSpan.log[i].msg = <<>>
       /\ CallsOf(CtxSpan, "RecordError") = {}
  /\ evt.Err \notin {ErrNoRows, ErrMultiRows} =>
       \E i \in CallsOf(CtxSpan, "RecordError") : CtxSpan.log[i].err = evt.Err
  /\ statusErrorLabel \in LabelSet(labels)
  /\ statusOKLabel \notin LabelSet(labels)
  /\ \A a \in AttrsOf(CtxSpan) : a.key # "db.rows_affected"

\* C8 as claimed: for every event carrying an error and a recording span.
C8_Original ==
  (Done /\ evt.Err # Nil /\ IsRecording(CtxSpan)) => ErrorClassified

\* C8 as amended: for an event carrying an error and a recording span whose
\* statement extraction succeeds: a sentinel error gives status Error with an
\* empty message and no exception record, any other error an exception
\* record; the labels gain status=Error and never status=OK, and no
\* rows-affected attribute is attached.
C8_ErrorClassification ==
  (Done /\ evt.Err # Nil /\ IsRecording(CtxSpan) /\ Succeeded) =>
    /\ ErrorClassified
    /\ h.AllowMetric => statusErrorLabel \in LabelSet(latency[1].labels)

C8_Witness ==
  /\ Done /\ Succeeded /\ IsRecording(CtxSpan)
  /\ evt.Err = ErrNoRows
  /\ evt.Result.present
  /\ CtxSpan.log[2] = OpSetStatus(<<>>)

\* the frames funcFileLine walks: from the caller of AfterQuery outward
Walked == Callers(stack, skip, depth)
IsLibrary(f) == Contains(f.fn, pgPkg)
\* the frame C9 describes
ClaimedFrame ==
  IF \E i \in 1..Len(Walked) : ~IsLibrary(Walked[i])
  THEN Walked[CHOOSE i \in 1..Len(Walked) :
                /\ ~IsLibrary(Walked[i])
                /\ \A j \in 1..(i - 1) : IsLibrary(Walked[j])]
  ELSE IF Walked # <<>> THEN Walked[Len(Walked)] ELSE NoFrame

C10_MetricsWithoutSpan ==
  /\ (Done /\ h.AllowMetric /\ ~IsRecording(CtxSpan)) =>
       /\ Untouched(spans.ambient)
       /\ Untouched(spans.child)
       /\ Len(latency) = 1
       /\ latency[1].labels = labels
       /\ Succeeded => KeysOf(labels) = ExpectedKeys
       /\ ~Succeeded => labels = <<>>
  /\ \A s \in {"ambient", "child"} :
       /\ ~Untouched(spans[s]) => IsRecording(spans[s])
       /\ \A i \in CallsOf(spans[s], "End") : i = Len(spans[s].log)

C10_Witness ==
  /\ Done /\ h.AllowMetric /\ ~IsRecording(CtxSpan) /\ Succeeded
  /\ spans.child.created
  /\ evt.Err = ErrOther
  /\ KeysOf(labels) = <<methodKey, instanceKey, tableKey, statusKey>>
  /\ Untouched(spans.child)

====
